---- MODULE Spec2Model ----
(***************************************************************************)
(* FactorioManager: dependency resolution and download orchestration.      *)
(*                                                                         *)
(* The model follows core/downloader.py (ModDownloader) and core/portal.py *)
(* (FactorioPortalAPI).  One download_mods call is a sequential process    *)
(* (the orchestrating thread) whose position is pc; the recursion of       *)
(* resolve_dependencies is an explicit stack of frames; the worker pool    *)
(* of ThreadPoolExecutor is the per-package future state fut.              *)
(*                                                                         *)
(* Spec is download_mods with its resolver and pool; FetchSpec is one      *)
(* download_mod call on a mods folder; ParseSpec is the declaration parser *)
(* of get_mod_dependencies.  WarnSpec is Spec with a registry that also    *)
(* publishes incompatibility and expansion declarations; VersionSpec is    *)
(* _compare_versions; CheckerSpec is core/checker.py (ModChecker);         *)
(* LookupSpec is one parse_mod_from_portal call, GET by GET, against a     *)
(* registry that changes; UISpec is the download tab of                    *)
(* ui/downloader_tab.py.                                                   *)
(***************************************************************************)
EXTENDS Integers, Sequences, FiniteSets, TLC

\* ------------------------------------------------------------------ bounds
NumMods == 3          \* package names are 1..NumMods
MaxEdges == 3         \* dependency declarations published by the registry, in total
MaxRoots == 2         \* length of the mod_names argument
MaxWorkers == 2       \* largest max_workers a downloader is constructed with
MaxLookups == 2       \* cap of the per-name lookup counter
MaxVersion == 2       \* releases of one package published while a call runs
MaxInfoLen == 5       \* size of info_json.dependencies: its characters, plus one per entry
MaxParts == 3         \* dot-separated components of a version string
MaxTerminal == 1      \* incompatibility and expansion declarations published by the registry
NumPkgs == 1          \* packages that may be installed in the mods folder of a ModChecker
MaxNotes == 4         \* notifications the download tab has shown or scheduled

Names == 1..NumMods

VARIABLES
    progress_callback,          \* "None" (print) or "set" (a caller-supplied sink)
    mod_progress_callback,      \* "None" or "set"
    overall_progress_callback,  \* "None" or "set"
    pool_workers,               \* max_workers of the pool of this call; 0: no pool yet
    pc,                         \* position of the orchestrating thread
    mod_names,                  \* argument of download_mods
    include_optional,           \* argument of download_mods
    rootIdx,                    \* index of the root being resolved
    registry,                   \* what the portal publishes, per name, once asked
    lookups,                    \* parse_mod_from_portal calls per name, this resolve call
    gets,                       \* registry GETs per name, this resolve call
    visited,                    \* the visited set of this resolve call
    stack,                      \* frames of resolve_dependencies, innermost last
    exc,                        \* an exception is propagating to the innermost frame
    ret,                        \* keys of the closure the last top-level resolve returned
    all_mods,                   \* keys of all_mods
    failed,                     \* the failed list, as a set of names
    downloaded,                 \* the downloaded list, as a set of names
    fut,                        \* state of the future of each package
    lookupFailed,               \* history: names whose lookup gave no Mod in this call
    built,                      \* version of the Mod built for a name in this resolve call
    all_mods_version,           \* version of the Mod all_mods holds for a name; 0: none
    submitted,                  \* history: download_mod calls submitted per name
    completed,                  \* the counter of line 369
    overall_calls,              \* history: the `completed` of each call of the aggregate sink
    worker_sink_calls,          \* history: a caller-supplied sink was called by a pool worker
    expansion_names,            \* the names of FACTORIO_EXPANSIONS among the package names
    terminal_budget,            \* incompatibility/expansion declarations still to be published
    ret_terminal,               \* the two lists the last top-level resolve returned with ret
    all_incompatibilities,      \* the set of line 308
    all_expansions,             \* the set of line 309
    installed_mods,             \* what get_installed_mods gave at line 336, as far as it is read
    conflicts_with_installed,   \* the list of line 337, as a set
    \* one download_mod call (lines 170-288)
    mods_folder,                \* the file at the target path, and other versions
    force,                      \* argument of download_mod
    fetch_pc,                   \* position of the call
    fetch_ret,                  \* what the call returned
    body,                       \* what the mirror sends in its 200 response
    folder_before,              \* history: mods_folder when the call was entered
    mirror_requests,            \* history: GETs sent to the mirror by this call
    \* one get_mod_dependencies call (lines 158-201)
    consumed,                   \* size of the part of info_json.dependencies parsed so far
    dep,                        \* history: the declaration parsed last
    dependencies,
    optional_dependencies,
    incompatible_dependencies,
    expansion_dependencies,
    \* one Mod._compare_versions call (mod.py, lines 67-90)
    v1,                         \* argument: a version string, split at its dots
    v2,                         \* argument
    compared,                   \* <<r>> once the call has returned r
    \* a ModChecker (checker.py)
    self_mods,                  \* self.mods: the Mod of each name, or NoMod
    local_mods,                 \* the Mods scan_mods built and has not put into self.mods yet
    disk,                       \* the versions v with a file {name}_{v}.zip in the mods folder
    last_update_check,          \* "None", or how long ago: "fresh" (< 600 s) or "stale"
    checker_pc,                 \* "idle", or the loop over the futures: "scan", "check"
    waiting,                    \* names whose future the loop has not taken yet
    last_get,                   \* history: the get_mod call whose result was taken last
    update_result,              \* history: the last update_mod call
    \* one parse_mod_from_portal call (portal.py, lines 210-253) and the registry
    portal_release,             \* the latest release the registry holds of the package; 0: none
    portal_answers,             \* "ok", "empty" (200, an empty JSON value) or "failing"
    release_deps,               \* the names each release declares as required
    lookup_pc,                  \* "idle", "second" (before line 232) or "done"
    latest_release,             \* the release line 230 took from the first response
    lookup_mod,                 \* what the call returned
    \* the download tab (ui/downloader_tab.py)
    url_entry,                  \* what the URL field holds: "empty", "name", "bad_url", "url"
    folder_var,                 \* TRUE: a mods folder is selected
    is_downloading,             \* self.is_downloading
    download_btn,               \* state of the Download button: "normal" or "disabled"
    ui_pc,                      \* "idle", or "thread": _download_thread is running
    notifications               \* notification types passed to _notify, in order

vars == <<progress_callback, mod_progress_callback, overall_progress_callback,
          pool_workers, pc, mod_names, include_optional, rootIdx, registry,
          lookups, gets, visited, stack, exc, ret, all_mods, failed,
          downloaded, fut, lookupFailed, built, all_mods_version, submitted,
          completed, overall_calls, worker_sink_calls, expansion_names,
          terminal_budget, ret_terminal, all_incompatibilities, all_expansions,
          installed_mods, conflicts_with_installed,
          mods_folder, force, fetch_pc, fetch_ret, body, folder_before,
          mirror_requests, consumed, dep, dependencies, optional_dependencies,
          incompatible_dependencies, expansion_dependencies, v1, v2, compared,
          self_mods, local_mods, disk, last_update_check, checker_pc, waiting, last_get,
          update_result, portal_release, portal_answers, release_deps, lookup_pc,
          latest_release, lookup_mod, url_entry, folder_var, is_downloading,
          download_btn, ui_pc, notifications>>

sinkVars == <<progress_callback, mod_progress_callback, overall_progress_callback>>
callVars == <<mod_names, include_optional>>
progressVars == <<completed, overall_calls, worker_sink_calls>>
poolVars == <<downloaded, fut, submitted, progressVars>>
resolveVars == <<registry, lookups, gets, visited, stack, exc, ret, lookupFailed, built,
                 terminal_budget, ret_terminal>>
warnVars == <<all_incompatibilities, all_expansions, installed_mods,
              conflicts_with_installed>>

fetchVars == <<mods_folder, force, fetch_pc, fetch_ret, body, folder_before,
               mirror_requests>>
parseVars == <<consumed, dep, dependencies, optional_dependencies,
               incompatible_dependencies, expansion_dependencies>>
downloadVars == <<pool_workers, pc, mod_names, include_optional, rootIdx, registry,
                  lookups, gets, visited, stack, exc, ret, all_mods, failed,
                  downloaded, fut, lookupFailed, built, all_mods_version, submitted,
                  progressVars, expansion_names, terminal_budget, ret_terminal, warnVars>>
versionVars == <<v1, v2, compared>>
checkerVars == <<self_mods, local_mods, disk, last_update_check, checker_pc, waiting,
                 last_get, update_result>>
lookupVars == <<portal_release, portal_answers, release_deps, lookup_pc, latest_release,
                lookup_mod>>
uiVars == <<url_entry, folder_var, is_downloading, download_btn, ui_pc, notifications>>
moreVars == <<versionVars, checkerVars, lookupVars, uiVars>>
otherVars == <<fetchVars, parseVars, moreVars, expansion_names>>

\* ----------------------------------------------------------------- helpers
Range(s) == {s[i] : i \in 1..Len(s)}

SeqsUpTo(S, n) == UNION {[1..k -> S] : k \in 0..n}

\* ---------------------------------------------------------------- registry
\* What one GET of {API_URL}/{name}/full can bring: a status (200 with a body
\* that holds releases, holds none, holds malformed declarations, is an empty
\* JSON value, or is no JSON), or an exception of requests: ConnectionError,
\* ConnectTimeout, ReadTimeout.
HttpOutcomes ==
    {"200", "200_no_releases", "200_malformed", "200_empty", "404", "500",
     "other_status", "conn_error", "connect_timeout", "timeout", "bad_json"}

Status200 == {"200", "200_no_releases", "200_malformed", "200_empty", "bad_json"}

\* The classes of requests.exceptions: ConnectTimeout is a ConnectionError and
\* a Timeout, ReadTimeout a Timeout only.
IsConnectionError(o) == o \in {"conn_error", "connect_timeout"}
IsTimeout(o) == o \in {"connect_timeout", "timeout"}

\* (C21's mutant: the except clause of lines 91-95 is missing.)
ErrorTypeNoTimeout(o) ==
    IF o = "404" THEN "not_found"
    ELSE IF o \in {"500", "other_status"} THEN "server_error"
    ELSE IF IsConnectionError(o) THEN "offline"
    ELSE "unknown"

\* Lines 68-103: the error_type of the PortalAPIError get_mod raises; the
\* except clauses are tried in the order they are written.
ErrorType(o) ==
    IF o = "404" THEN "not_found"
    ELSE IF o \in {"500", "other_status"} THEN "server_error"
    ELSE IF IsConnectionError(o) THEN "offline"
    ELSE IF IsTimeout(o) THEN "timeout"
    ELSE "unknown"

\* get_mod (lines 60-103): response.json() on 200, a PortalAPIError otherwise
\* (with the status code when a status was received).
GetMod(o) ==
    IF o \in Status200 \ {"bad_json"}
    THEN [raised |-> FALSE, error_type |-> "none", status_code |-> FALSE,
          value |-> IF o = "200_empty" THEN "empty" ELSE "metadata"]
    ELSE [raised |-> TRUE, error_type |-> ErrorType(o),
          status_code |-> o \in {"404", "500", "other_status"}, value |-> "none"]

\* parse_mod_from_portal under one registry outcome o: whether a Mod is
\* returned (None otherwise), whether it raised, and how many GETs it issued:
\* get_mod at line 221, and again inside get_mod_dependencies (line 154).
ParseModFromPortal(o) ==
    IF GetMod(o).raised THEN [mod |-> FALSE, raised |-> FALSE, gets |-> 1]
    ELSE IF o \in {"200_no_releases", "200_empty"}
    THEN [mod |-> FALSE, raised |-> FALSE, gets |-> 1]
    ELSE IF o = "200_malformed" THEN [mod |-> FALSE, raised |-> FALSE, gets |-> 2]
    ELSE [mod |-> TRUE, raised |-> FALSE, gets |-> 2]

\* The registry holds, for a name, a well-formed package ("found", with the
\* required and optional names of its latest release) or nothing a Mod can be
\* made of ("absent": every GET fails or brings a body without releases or
\* with malformed declarations).  An entry is fixed the first time the name is
\* asked for and stays while download_mods resolves its roots; the registry is
\* not asked again once the downloads are submitted.  A found entry carries the
\* version of its latest release; a later resolve call of the same
\* download_mods call may find a newer release published.
Unknown == [st |-> "unknown", req |-> <<>>, opt |-> <<>>, version |-> 0]

FoundOutcomes == {"200"}
AbsentOutcomes == HttpOutcomes \ FoundOutcomes

EdgesUsed == LET RECURSIVE Sum(_)
                 Sum(n) == IF n = 0 THEN 0
                           ELSE Len(registry[n].req) + Len(registry[n].opt) + Sum(n - 1)
             IN Sum(NumMods)

\* Package names mean nothing to the code beyond their identity (and the
\* order of submission to the pool), so the inputs are enumerated up to
\* renaming: a name that has not occurred yet in the arguments or in an answer
\* of the registry is always the smallest such name.
Mentioned ==
    Range(mod_names) \cup all_mods \cup failed \cup lookupFailed
    \cup UNION {Range(registry[n].req) \cup Range(registry[n].opt) : n \in Names}

InOrderOfAppearance(s, known) ==
    \A i \in 1..Len(s) :
        LET before == known \cup {s[j] : j \in 1..(i - 1)}
        IN  s[i] \in before \/ \A n \in Names \ before : s[i] <= n

\* The entries the registry may turn out to hold for a name not asked before.
Entries ==
    LET b == MaxEdges - EdgesUsed
        decls == {d \in SeqsUpTo(Names \ expansion_names, b) :
                      InOrderOfAppearance(d, Mentioned)}
    IN  {[st |-> "absent", req |-> <<>>, opt |-> <<>>, version |-> 0]}
        \cup UNION {{[st |-> "found", req |-> SubSeq(d, 1, k),
                                       opt |-> SubSeq(d, k + 1, Len(d)),
                                       version |-> 1] : k \in 0..Len(d)} :
                    d \in decls}

\* The outcomes of a GET for a name the registry holds entry e for.
Outcomes(e) == IF e.st = "found" THEN FoundOutcomes ELSE AbsentOutcomes

\* The releases the registry may hold of a package it answered for before:
\* the one it answered with, or a newer one (a name is asked for again only
\* in a later resolve call).
Releases(e) ==
    IF e.st = "found" /\ e.version < MaxVersion
    THEN {e, [e EXCEPT !.version = @ + 1]}
    ELSE {e}

Answers(name) ==
    IF registry[name].st # "unknown" THEN Releases(registry[name])
    ELSE Entries

\* What get_mod_dependencies appends to incompatible_dependencies for a
\* declaration "! name" or "! name >= 1.0" (portal.py, lines 177-180): the
\* declaration less its "!", the version constraint included.
IncompatibleDeclarations == [name : Names, constraint : BOOLEAN]

\* The incompatible_dependencies and expansion_dependencies of the Mod built
\* of an entry: the release may declare incompatibilities with any names, and
\* dependencies on expansions (portal.py, lines 187-188 and 196-197).
TerminalDeclarations(e) ==
    IF e.st # "found" THEN {[incompatible |-> {}, expansion |-> {}]}
    ELSE {t \in [incompatible : SUBSET IncompatibleDeclarations,
                 expansion : SUBSET expansion_names] :
              Cardinality(t.incompatible) + Cardinality(t.expansion) <= terminal_budget}

\* ------------------------------------------------------------------- sinks
\* (C7's mutant: _log_progress calls the callback without the test of line 63.)
SinkRaisesUnchecked(cb) == IF cb = "set" THEN {FALSE, TRUE} ELSE {TRUE}

\* A call of a sink: the default (print, or no callback) returns; a
\* caller-supplied callback returns or raises.
SinkRaises(cb) == IF cb = "set" THEN {FALSE, TRUE} ELSE {FALSE}

\* ---------------------------------------------------------------- resolver
\* (C3's mutant: the guard of lines 123-124 is missing.)
NeverVisited(name, vis) == FALSE

\* Lines 123-124: the cycle/diamond guard.
AlreadyVisited(name, vis) == name \in vis

\* (C2's mutant: the optional names are followed whatever include_optional.)
AllDepsWithOptional(mod, include_opt) == mod.req \o mod.opt

\* (C23's mutant: the expansions a Mod depends on are resolved as well.)
AllDepsWithExpansions(mod, include_opt) ==
    LET RECURSIVE AsSeq(_)
        AsSeq(s) == IF s = {} THEN <<>>
                    ELSE LET x == CHOOSE y \in s : \A z \in s : y <= z
                         IN  <<x>> \o AsSeq(s \ {x})
    IN  (IF include_opt THEN mod.req \o mod.opt ELSE mod.req) \o AsSeq(mod.expansion)

\* Lines 149-152: the names resolve_dependencies recurses into.
AllDeps(mod, include_opt) ==
    IF include_opt THEN mod.req \o mod.opt ELSE mod.req

\* Lines 127-129 and 139-152: the locals of a call once the Mod is there.
Frame(name, todo, mod) ==
    [name |-> name, todo |-> todo, deps |-> {name},
     incompatibilities |-> mod.incompatible, expansions |-> mod.expansion]

NoTerminal == [incompatibilities |-> {}, expansions |-> {}]

Top == stack[Len(stack)]
TopTerminal == [incompatibilities |-> Top.incompatibilities, expansions |-> Top.expansions]
Rest == SubSeq(stack, 1, Len(stack) - 1)

\* A call of resolve_dependencies handing its `dependencies` to its caller:
\* dependencies.update(dep_mods) at line 161 in an enclosing frame, or the
\* return value of the top-level call.
Deliver(stk, value, terminal) ==
    IF stk = <<>>
    THEN /\ stack' = stk
         /\ ret' = value
         /\ ret_terminal' = terminal
         /\ pc' = "resolved"
    ELSE /\ stack' = [stk EXCEPT
                        ![Len(stk)].deps = @ \cup value,
                        ![Len(stk)].incompatibilities = @ \cup terminal.incompatibilities,
                        ![Len(stk)].expansions = @ \cup terminal.expansions]
         /\ pc' = "resolving"
         /\ UNCHANGED <<ret, ret_terminal>>

\* An exception leaving a call of resolve_dependencies: it arrives inside the
\* try block of the enclosing frame (line 156), or in download_mods (line 321).
Raise(stk) ==
    /\ stack' = stk
    /\ exc' = TRUE
    /\ pc' = "resolving"
    /\ UNCHANGED <<ret, ret_terminal>>

\* (C5's mutant: a failed lookup leaves the call as an exception.)
LookupFailedRaises(stk) == Raise(stk)

\* Lines 135-137, and 165-168 when the log call of line 136 raises: the lookup
\* gave no Mod.  The branch returns empty results, unless the sink raises again.
LookupFailed(stk) ==
    \E r \in SinkRaises(progress_callback) :
        IF r THEN Raise(stk) ELSE Deliver(stk, {}, NoTerminal) /\ UNCHANGED exc

\* Lines 120-168 up to the loop: resolve_dependencies(name, include_optional,
\* vis) entered from a caller whose frames are stk; lk and gt are the call
\* counters of the top-level call this one belongs to.
Enter(name, stk, vis, lk, gt) ==
    IF AlreadyVisited(name, vis)
    THEN /\ Deliver(stk, {}, NoTerminal)
         /\ visited' = vis
         /\ lookups' = lk
         /\ gets' = gt
         /\ UNCHANGED <<exc, registry, lookupFailed, built, terminal_budget>>
    ELSE /\ visited' = vis \cup {name}
         /\ \E r131 \in SinkRaises(progress_callback) :
              IF r131
              THEN /\ Raise(stk)
                   /\ lookups' = lk
                   /\ gets' = gt
                   /\ UNCHANGED <<registry, lookupFailed, built, terminal_budget>>
              ELSE /\ lk[name] < MaxLookups
                   /\ \E e \in Answers(name) : \E o \in Outcomes(e) :
                      \E terminal \in TerminalDeclarations(e) :
                        LET p == ParseModFromPortal(o)
                            mod == [req |-> e.req, opt |-> e.opt,
                                    incompatible |-> terminal.incompatible,
                                    expansion |-> terminal.expansion]
                        IN
                        /\ terminal_budget' = terminal_budget - Cardinality(terminal.incompatible)
                                                                - Cardinality(terminal.expansion)
                        /\ registry' = [registry EXCEPT ![name] = e]
                        /\ lookupFailed' = IF p.mod THEN lookupFailed
                                           ELSE lookupFailed \cup {name}
                        /\ lookups' = [lk EXCEPT ![name] = @ + 1]
                        /\ gets' = [gt EXCEPT ![name] = @ + p.gets]
                        /\ built' = IF p.mod THEN [built EXCEPT ![name] = e.version]
                                    ELSE built
                        /\ IF p.mod
                           THEN /\ stack' = Append(stk, Frame(name, AllDeps(mod, include_optional),
                                                              mod))
                                /\ pc' = "resolving"
                                /\ UNCHANGED <<exc, ret, ret_terminal>>
                           ELSE LookupFailed(stk)

NoCalls == [n \in Names |-> 0]

\* ------------------------------------------------------------ download_mods
\* download_mods(names, inc) is called on an idle downloader (lines 306-310).
DownloadMods(names, inc) ==
    /\ pc = "idle"
    /\ pc' = "loop"
    /\ mod_names' = names
    /\ include_optional' = inc
    /\ rootIdx' = 1
    /\ UNCHANGED <<otherVars, sinkVars, pool_workers, resolveVars, all_mods, all_mods_version, failed, poolVars,
                   warnVars>>

\* Lines 312-317: the next root is resolved, with a fresh visited set.
ResolveRoot ==
    /\ pc = "loop"
    /\ rootIdx <= Len(mod_names)
    /\ Enter(mod_names[rootIdx], <<>>, {}, NoCalls, NoCalls)
    /\ UNCHANGED <<otherVars, sinkVars, pool_workers, callVars, rootIdx, all_mods, all_mods_version, failed, poolVars,
                   warnVars>>

\* Lines 155-163: the innermost call takes its next dependency and calls itself.
CallDep ==
    /\ pc = "resolving"
    /\ ~exc
    /\ stack # <<>>
    /\ Top.todo # <<>>
    /\ Enter(Head(Top.todo),
             [stack EXCEPT ![Len(stack)].todo = Tail(@)],
             visited, lookups, gets)
    /\ UNCHANGED <<otherVars, sinkVars, pool_workers, callVars, rootIdx, all_mods, all_mods_version, failed, poolVars,
                   warnVars>>

\* Line 168: the innermost call has no dependency left and returns.
ReturnDeps ==
    /\ pc = "resolving"
    /\ ~exc
    /\ stack # <<>>
    /\ Top.todo = <<>>
    /\ Deliver(Rest, Top.deps, TopTerminal)
    /\ UNCHANGED <<otherVars, sinkVars, pool_workers, callVars, rootIdx, registry, lookups, gets,
                   built, visited, exc, lookupFailed, all_mods, all_mods_version, failed, poolVars,
                   terminal_budget, warnVars>>

\* Lines 165-168: an exception raised inside the try block of the innermost
\* call is logged there; the call returns what it has, unless the sink raises.
CatchInResolve ==
    /\ pc = "resolving"
    /\ exc
    /\ stack # <<>>
    /\ \E r166 \in SinkRaises(progress_callback) :
         IF r166
         THEN Raise(Rest)
         ELSE Deliver(Rest, Top.deps, TopTerminal) /\ exc' = FALSE
    /\ UNCHANGED <<otherVars, sinkVars, pool_workers, callVars, rootIdx, registry, lookups, gets,
                   built, visited, lookupFailed, all_mods, all_mods_version, failed, poolVars,
                   terminal_budget, warnVars>>

\* The top-level resolve call is over: its visited set and counters are gone.
EndOfCall ==
    /\ visited' = {}
    /\ lookups' = NoCalls
    /\ gets' = NoCalls
    /\ ret' = {}
    /\ exc' = FALSE
    /\ built' = NoCalls
    /\ ret_terminal' = NoTerminal
    /\ UNCHANGED <<stack, registry, lookupFailed, terminal_budget>>

\* all_mods.update(deps), line 318: the keys of all_mods afterwards.
Update(mods, deps) == mods \cup deps

\* all_mods.update(deps), line 318: the Mod held under each key afterwards;
\* dict.update stores the value of deps under a key both dicts have.
UpdateVersion(held, deps, new) ==
    [n \in Names |-> IF n \in deps THEN new[n] ELSE held[n]]

\* Lines 318-320: the closure of the root is merged into all_mods.
MergeClosure ==
    /\ pc = "resolved"
    /\ all_mods' = Update(all_mods, ret)
    /\ all_mods_version' = UpdateVersion(all_mods_version, ret, built)
    /\ all_incompatibilities' = all_incompatibilities \cup ret_terminal.incompatibilities
    /\ all_expansions' = all_expansions \cup ret_terminal.expansions
    /\ rootIdx' = rootIdx + 1
    /\ pc' = "loop"
    /\ EndOfCall
    /\ UNCHANGED <<otherVars, sinkVars, pool_workers, callVars, failed, poolVars, installed_mods,
                   conflicts_with_installed>>

\* Lines 321-323: the top-level resolve call raised.
CatchRoot ==
    /\ pc = "resolving"
    /\ exc
    /\ stack = <<>>
    /\ \E r322 \in SinkRaises(progress_callback) :
         IF r322
         THEN /\ pc' = "raised"
              /\ UNCHANGED <<failed, rootIdx>>
         ELSE /\ failed' = failed \cup {mod_names[rootIdx]}
              /\ rootIdx' = rootIdx + 1
              /\ pc' = "loop"
    /\ EndOfCall
    /\ UNCHANGED <<otherVars, sinkVars, pool_workers, callVars, all_mods, all_mods_version, poolVars,
                   warnVars>>

\* (C11's mutant: one call per requested occurrence of a name, no dict.)
SubmitPerRequest(mods) ==
    [n \in Names |->
        IF n \in mods
        THEN LET asked == Cardinality({i \in 1..Len(mod_names) : mod_names[i] = n})
             IN  IF asked > 1 THEN asked ELSE 1
        ELSE 0]

\* Lines 373-376: one download_mod call is submitted per value of all_mods,
\* a dict keyed by package name.
Submit(mods) == [n \in Names |-> IF n \in mods THEN 1 ELSE 0]

\* Lines 336-341: the strings of all_incompatibilities that are keys of
\* installed_mods, the names get_installed_mods takes from the file names
\* {name}_{version}.zip of the mods folder.
ConflictsWithInstalled(incompatibilities, installed) ==
    {d \in incompatibilities : ~d.constraint /\ d.name \in installed}

\* Lines 326-376: the warnings and the list of packages are logged, each
\* package is announced to the per-package sink, and one download_mod call
\* per package of all_mods is submitted to a pool of self.max_workers workers
\* (a parameter of the constructor, read here only; default 4).
Announce ==
    /\ pc = "loop"
    /\ rootIdx > Len(mod_names)
    /\ \E r \in SinkRaises(progress_callback)
                 \cup (IF all_mods # {} THEN SinkRaises(mod_progress_callback) ELSE {FALSE}) :
         IF r
         THEN /\ pc' = "raised"
              /\ UNCHANGED <<fut, pool_workers, submitted, installed_mods,
                             conflicts_with_installed>>
         ELSE /\ pc' = "collect"
              /\ \E max_workers \in 1..MaxWorkers : pool_workers' = max_workers
              /\ fut' = [n \in Names |-> IF n \in all_mods THEN "queued" ELSE "none"]
              /\ submitted' = Submit(all_mods)
              /\ \E installed \in SUBSET {d.name : d \in all_incompatibilities} :
                   /\ installed_mods' = installed
                   /\ conflicts_with_installed' =
                          ConflictsWithInstalled(all_incompatibilities, installed)
    /\ UNCHANGED progressVars
    /\ registry' = [n \in Names |-> Unknown]
    /\ UNCHANGED <<otherVars, sinkVars, callVars, rootIdx, lookups, gets, built, visited, stack, exc,
                   ret, lookupFailed, all_mods, all_mods_version, failed, downloaded,
                   terminal_budget, ret_terminal, all_incompatibilities, all_expansions>>

\* ------------------------------------------------------------- worker pool
Queued == {n \in Names : fut[n] = "queued"}
Running == {n \in Names : fut[n] = "running"}
Finished == {n \in Names : fut[n] \in {"true", "false", "exc"}}

\* (C10's mutant: the pool is created without max_workers=self.max_workers.)
WorkerFreeUnbounded(running, workers) == TRUE

\* ThreadPoolExecutor(max_workers): a queued call starts when a worker is free.
WorkerFree(running, workers) == Cardinality(running) < workers

\* What the mirror and the mods folder hold for one download_mod call.
MirrorOutcomes == {"already_installed", "ok", "404", "non200", "transport_error", "corrupt"}

\* download_mod (lines 181-208): True when the file was there or was fetched
\* and verified; False on every failure, the except clause of line 206
\* included; it raises only when the log call of line 207 raises.
DownloadMod(o, logRaisedInTry, logRaisedInHandler) ==
    IF logRaisedInTry
    THEN (IF logRaisedInHandler THEN "exc" ELSE "false")
    ELSE IF o \in {"already_installed", "ok"} THEN "true" ELSE "false"

\* A worker takes the oldest queued call (submission follows the sorted names).
StartFetch(m) ==
    /\ pc \in {"collect", "draining"}
    /\ m \in Queued
    /\ \A n \in Queued : m <= n
    /\ WorkerFree(Running, pool_workers)
    /\ fut' = [fut EXCEPT ![m] = "running"]
    /\ UNCHANGED <<otherVars, sinkVars, pool_workers, pc, callVars, rootIdx, resolveVars,
                   all_mods, all_mods_version, failed, downloaded, submitted, progressVars,
                   warnVars>>

\* The download_mod call of package m ends.
FinishFetch(m) ==
    /\ pc \in {"collect", "draining"}
    /\ m \in Running
    /\ \E o \in MirrorOutcomes, r1 \in SinkRaises(progress_callback),
          r2 \in SinkRaises(progress_callback) :
         fut' = [fut EXCEPT ![m] = DownloadMod(o, r1, r2)]
    /\ worker_sink_calls' = (worker_sink_calls \/ progress_callback = "set")
    /\ UNCHANGED <<otherVars, sinkVars, pool_workers, pc, callVars, rootIdx, resolveVars,
                   all_mods, all_mods_version, failed, downloaded, submitted, completed,
                   overall_calls, warnVars>>

\* Lines 379-397, the body of the as_completed loop for a finished future,
\* given which sink calls raise: what is appended to downloaded and to failed,
\* and whether an exception leaves the loop.
Classified(result, m, rMod1, rLog, rMod2, rOverall) ==
    LET handler == result = "exc" \/ rMod1
        handlerAppends == handler /\ ~rLog
        escapes == (handler /\ (rLog \/ rMod2)) \/ rOverall
    IN  [downloaded |-> IF result = "true" THEN {m} ELSE {},
         failed |-> IF result = "false" \/ handlerAppends THEN {m} ELSE {},
         escapes |-> escapes]

\* Lines 394-397: the finally clause calls the aggregate sink, when one is
\* set, with the counter it has just incremented.
OverallCalls(calls, n) ==
    IF overall_progress_callback = "set" THEN Append(calls, n) ELSE calls

\* The orchestrating thread takes a finished future from as_completed.
Classify(m) ==
    /\ pc = "collect"
    /\ m \in Finished
    /\ \E rMod1 \in SinkRaises(mod_progress_callback),
          rLog \in SinkRaises(progress_callback),
          rMod2 \in SinkRaises(mod_progress_callback),
          rOverall \in SinkRaises(overall_progress_callback) :
         LET c == Classified(fut[m], m, rMod1, rLog, rMod2, rOverall) IN
         /\ downloaded' = downloaded \cup c.downloaded
         /\ failed' = failed \cup c.failed
         /\ pc' = IF c.escapes THEN "draining" ELSE "collect"
    /\ fut' = [fut EXCEPT ![m] = "classified"]
    /\ completed' = completed + 1
    /\ overall_calls' = OverallCalls(overall_calls, completed + 1)
    /\ UNCHANGED <<otherVars, sinkVars, pool_workers, callVars, rootIdx, resolveVars, all_mods,
                   all_mods_version, submitted, worker_sink_calls, warnVars>>

\* Line 399: every future has been taken from as_completed; the pool is shut
\* down and (downloaded, failed) is returned.
ReturnResults ==
    /\ pc = "collect"
    /\ \A n \in all_mods : fut[n] = "classified"
    /\ pc' = "done"
    /\ UNCHANGED <<otherVars, sinkVars, pool_workers, callVars, rootIdx, resolveVars, all_mods, all_mods_version,
                   failed, poolVars, warnVars>>

\* An exception left the as_completed loop: leaving the with block waits for
\* the calls still queued or running (shutdown(wait=True)), then it propagates.
Propagate ==
    /\ pc = "draining"
    /\ Queued = {} /\ Running = {}
    /\ pc' = "raised"
    /\ UNCHANGED <<otherVars, sinkVars, pool_workers, callVars, rootIdx, resolveVars, all_mods, all_mods_version,
                   failed, poolVars, warnVars>>

\* ------------------------------------------------------------------ setters
\* set_progress_callback, set_mod_progress_callback and
\* set_overall_progress_callback (lines 49-59): the caller installs its sinks
\* before it calls download_mods.  An installed sink that never raises behaves
\* as the default does, so installing all three covers installing any of them.
SetCallbacks ==
    /\ pc = "idle"
    /\ progress_callback = "None"
    /\ progress_callback' = "set"
    /\ mod_progress_callback' = "set"
    /\ overall_progress_callback' = "set"
    /\ UNCHANGED <<otherVars, pool_workers, pc, callVars, rootIdx, resolveVars, all_mods, all_mods_version, failed,
                   poolVars, warnVars>>

\* ------------------------------------------------------------ specification
\* No sink has been set: every message is printed.
DefaultSinks ==
    /\ progress_callback = "None"
    /\ mod_progress_callback = "None"
    /\ overall_progress_callback = "None"

\* No download_mods call has been made.
Idle ==
    /\ pool_workers = 0
    /\ pc = "idle"
    /\ mod_names = <<>>
    /\ include_optional = FALSE
    /\ rootIdx = 1
    /\ registry = [n \in Names |-> Unknown]
    /\ lookups = NoCalls
    /\ gets = NoCalls
    /\ visited = {}
    /\ stack = <<>>
    /\ exc = FALSE
    /\ ret = {}
    /\ lookupFailed = {}
    /\ all_mods = {}
    /\ failed = {}
    /\ downloaded = {}
    /\ fut = [n \in Names |-> "none"]
    /\ built = NoCalls
    /\ all_mods_version = NoCalls
    /\ submitted = NoCalls
    /\ completed = 0
    /\ overall_calls = <<>>
    /\ worker_sink_calls = FALSE
    /\ ret_terminal = NoTerminal
    /\ all_incompatibilities = {}
    /\ all_expansions = {}
    /\ installed_mods = {}
    /\ conflicts_with_installed = {}

\* No download_mods call has been made, and the releases the registry
\* publishes declare required and optional dependencies only.
NoDownload ==
    /\ Idle
    /\ expansion_names = {}
    /\ terminal_budget = 0

\* No download_mod call is under way outside a pool.
NoFetch ==
    /\ mods_folder = [target |-> "absent", older |-> FALSE]
    /\ force = FALSE
    /\ fetch_pc = "idle"
    /\ fetch_ret = "none"
    /\ body = "none"
    /\ folder_before = mods_folder
    /\ mirror_requests = 0

\* No get_mod_dependencies call is under way.
NoParse ==
    /\ consumed = 0
    /\ dep = <<>>
    /\ dependencies = <<>>
    /\ optional_dependencies = <<>>
    /\ incompatible_dependencies = <<>>
    /\ expansion_dependencies = <<>>

\* No _compare_versions call has been made.
NoCompare ==
    /\ v1 = <<>>
    /\ v2 = <<>>
    /\ compared = <<>>

Pkgs == 1..NumPkgs

\* None as a version (Mod.latest_version before a lookup), no Mod, no call.
NoVersion == <<>>
NoMod == [version |-> NoVersion, latest_version |-> NoVersion, status |-> "none",
          file_path |-> NoVersion]
NoGet == [outcome |-> "none",
          result |-> [raised |-> FALSE, error_type |-> "none", status_code |-> FALSE,
                      value |-> "none"]]
NoUpdate == [name |-> 0, ret |-> "none", before |-> NoMod]

\* A ModChecker as its constructor leaves it (checker.py, lines 30-37), on an
\* empty mods folder.
NoChecker ==
    /\ self_mods = [m \in Pkgs |-> NoMod]
    /\ local_mods = [m \in Pkgs |-> NoMod]
    /\ disk = [m \in Pkgs |-> {}]
    /\ last_update_check = "None"
    /\ checker_pc = "idle"
    /\ waiting = {}
    /\ last_get = NoGet
    /\ update_result = NoUpdate

\* None, as the result of parse_mod_from_portal.
NoLookupMod == [made |-> FALSE, version |-> 0, dependencies |-> {}, taken_from |-> 0]

\* No parse_mod_from_portal call is under way outside a resolve call.
NoLookup ==
    /\ portal_release = 0
    /\ portal_answers = "ok"
    /\ release_deps = [r \in 1..MaxVersion |-> {}]
    /\ lookup_pc = "idle"
    /\ latest_release = 0
    /\ lookup_mod = NoLookupMod

\* downloader_tab.py, line 40 and lines 366-380: the tab as built.
NoUI ==
    /\ url_entry = "empty"
    /\ folder_var = FALSE
    /\ is_downloading = FALSE
    /\ download_btn = "normal"
    /\ ui_pc = "idle"
    /\ notifications = <<>>

NoMore == NoCompare /\ NoChecker /\ NoLookup /\ NoUI

\* A ModDownloader as its constructor leaves it (lines 23-47).
Init ==
    /\ progress_callback = "None"
    /\ mod_progress_callback = "None"
    /\ overall_progress_callback = "None"
    /\ NoDownload
    /\ NoFetch
    /\ NoParse
    /\ NoMore

RootLists == {s \in SeqsUpTo(Names, MaxRoots) : Len(s) >= 1 /\ InOrderOfAppearance(s, {})}

Next ==
    \/ SetCallbacks
    \/ \E names \in RootLists, inc \in BOOLEAN : DownloadMods(names, inc)
    \/ ResolveRoot
    \/ CallDep
    \/ ReturnDeps
    \/ CatchInResolve
    \/ MergeClosure
    \/ CatchRoot
    \/ Announce
    \/ \E m \in Names : StartFetch(m)
    \/ \E m \in Names : FinishFetch(m)
    \/ \E m \in Names : Classify(m)
    \/ ReturnResults
    \/ Propagate

Spec == Init /\ [][Next]_vars

\* The same downloader with its default sinks, in front of a registry whose
\* releases also declare incompatibilities and dependencies on expansions;
\* the last package name is the name of an expansion.
WarnInit ==
    /\ DefaultSinks
    /\ Idle
    /\ expansion_names = {NumMods}
    /\ terminal_budget = MaxTerminal
    /\ NoFetch
    /\ NoParse
    /\ NoMore

\* No sink is set, so no call raises and the handlers of lines 165, 321 and
\* 389 are never entered.
WarnNext ==
    \/ \E names \in RootLists, inc \in BOOLEAN : DownloadMods(names, inc)
    \/ ResolveRoot
    \/ CallDep
    \/ ReturnDeps
    \/ MergeClosure
    \/ Announce
    \/ \E m \in Names : StartFetch(m)
    \/ \E m \in Names : FinishFetch(m)
    \/ \E m \in Names : Classify(m)
    \/ ReturnResults

WarnSpec == WarnInit /\ [][WarnNext]_vars

\* ============================================================ download_mod
\* One download_mod call at a time on a mods folder (lines 170-288): the file
\* at the target path {name}_{version}.zip is absent, a valid archive, or a
\* file that is no valid archive (the folder is the user's: it holds whatever
\* was put there, or was left there by a run that was interrupted); `older`
\* tells whether another version of the package lies beside it.
TargetStates == {"absent", "valid", "invalid"}

Folders == [target : TargetStates, older : BOOLEAN]

\* What the mirror answers to the GET of line 227: a status, an exception of
\* requests.get, or 200 with a body: a valid archive, bytes that are no
\* archive, an archive with an entry failing its CRC, or a stream that breaks.
MirrorResponses == {"404", "non200", "exception", "200"}
Bodies == {"valid_zip", "not_zip", "bad_crc", "broken_stream"}

\* The call returns v and leaves the folder as f.
Return(v, f) ==
    /\ fetch_ret' = v
    /\ mods_folder' = f
    /\ fetch_pc' = "idle"

\* (C15's mutant: the file is not removed.)
Kept(f) == f

\* output_path.unlink() (lines 271, 276, 283-285).
Unlinked(f) == [f EXCEPT !.target = "absent"]

\* Lines 206-208: the except clause of download_mod; its log call may raise.
Handler206(f) ==
    \E r207 \in SinkRaises(progress_callback) :
        Return(IF r207 THEN "raised" ELSE "False", f)

\* Lines 281-288: the except clause of _download_with_re146 logs, then
\* removes the output file if there is one.
Handler281(f) ==
    \E r282 \in SinkRaises(progress_callback) :
        IF r282 THEN Handler206(f) ELSE Return("False", Unlinked(f))

\* Lines 274-277: the except clause of the archive test logs, then removes
\* the output file.
Handler274(f) ==
    \E r275 \in SinkRaises(progress_callback) :
        IF r275 THEN Handler281(f) ELSE Return("False", Unlinked(f))

\* download_mod(mod, frc) is called.
CallDownloadMod(frc) ==
    /\ fetch_pc = "idle"
    /\ fetch_pc' = "check"
    /\ force' = frc
    /\ fetch_ret' = "none"
    /\ body' = "none"
    /\ folder_before' = mods_folder
    /\ mirror_requests' = 0
    /\ UNCHANGED <<mods_folder, sinkVars, downloadVars, parseVars, moreVars>>

\* (C16's mutant: the test of line 185 is missing.)
InstalledNever(f, frc) == FALSE

\* Line 185: mod_file.exists() and not force.
Installed(f, frc) == f.target # "absent" /\ ~frc

\* Lines 185-187: the file is there and force is off.
AlreadyInstalled ==
    /\ fetch_pc = "check"
    /\ Installed(mods_folder, force)
    /\ \E r186 \in SinkRaises(progress_callback) :
         IF r186 THEN Handler206(mods_folder) ELSE Return("True", mods_folder)
    /\ UNCHANGED <<force, body, folder_before, mirror_requests, sinkVars, downloadVars,
                   parseVars, moreVars>>

\* Lines 189-197 and 223-224: the notices of an older version, of the
\* download and of the mirror URL are logged.
BeginDownload ==
    /\ fetch_pc = "check"
    /\ ~Installed(mods_folder, force)
    /\ \E r197 \in SinkRaises(progress_callback),
          r224 \in SinkRaises(progress_callback) :
         IF r197 THEN Handler206(mods_folder)
         ELSE IF r224 THEN Handler281(mods_folder)
         ELSE /\ fetch_pc' = "request"
              /\ UNCHANGED <<fetch_ret, mods_folder>>
    /\ UNCHANGED <<force, body, folder_before, mirror_requests, sinkVars, downloadVars,
                   parseVars, moreVars>>

\* Lines 227-240: the GET is sent and the status is looked at.
MirrorRequest(o, b) ==
    /\ fetch_pc = "request"
    /\ mirror_requests' = mirror_requests + 1
    /\ \E r \in SinkRaises(progress_callback) :
         IF o = "exception" \/ r
         THEN Handler281(mods_folder) /\ UNCHANGED body
         ELSE IF o \in {"404", "non200"}
         THEN Return("False", mods_folder) /\ UNCHANGED body
         ELSE /\ body' = b
              /\ fetch_pc' = "open"
              /\ UNCHANGED <<fetch_ret, mods_folder>>
    /\ UNCHANGED <<force, folder_before, sinkVars, downloadVars, parseVars, moreVars>>

\* Line 246: open(output_path, 'wb') creates the file, or empties the one there.
OpenOutput ==
    /\ fetch_pc = "open"
    /\ mods_folder' = [mods_folder EXCEPT !.target = "invalid"]
    /\ fetch_pc' = "streaming"
    /\ UNCHANGED <<force, fetch_ret, body, folder_before, mirror_requests, sinkVars,
                   downloadVars, parseVars, moreVars>>

\* Lines 247-263: the body is written chunk by chunk, the file is closed, its
\* size is logged.
Stream ==
    /\ fetch_pc = "streaming"
    /\ \E r255 \in SinkRaises(progress_callback), r263 \in SinkRaises(progress_callback) :
         LET written == [mods_folder EXCEPT !.target =
                            IF body = "valid_zip" THEN "valid" ELSE "invalid"]
         IN  IF body = "broken_stream" \/ r255 THEN Handler281(mods_folder)
             ELSE IF r263 THEN Handler281(written)
             ELSE /\ mods_folder' = written
                  /\ fetch_pc' = "verify"
                  /\ UNCHANGED fetch_ret
    /\ UNCHANGED <<force, body, folder_before, mirror_requests, sinkVars, downloadVars,
                   parseVars, moreVars>>

\* Lines 265-279 and 200-204: the archive is opened and its entries are
\* tested; download_mod logs the success and returns what the test gave.
Verify ==
    /\ fetch_pc = "verify"
    /\ \E r \in SinkRaises(progress_callback), r201 \in SinkRaises(progress_callback) :
         IF body = "not_zip" \/ r
         THEN Handler274(mods_folder)
         ELSE IF body = "bad_crc"
         THEN Return("False", Unlinked(mods_folder))
         ELSE IF r201 THEN Handler206(mods_folder)
         ELSE Return("True", mods_folder)
    /\ UNCHANGED <<force, body, folder_before, mirror_requests, sinkVars, downloadVars,
                   parseVars, moreVars>>

FetchInit ==
    /\ progress_callback \in {"None", "set"}
    /\ mod_progress_callback = "None"
    /\ overall_progress_callback = "None"
    /\ NoDownload
    /\ NoParse
    /\ NoMore
    /\ mods_folder \in Folders
    /\ force = FALSE
    /\ fetch_pc = "idle"
    /\ fetch_ret = "none"
    /\ body = "none"
    /\ folder_before = mods_folder
    /\ mirror_requests = 0

FetchNext ==
    \/ \E frc \in BOOLEAN : CallDownloadMod(frc)
    \/ AlreadyInstalled
    \/ BeginDownload
    \/ \E o \in MirrorResponses, b \in Bodies : MirrorRequest(o, b)
    \/ OpenOutput
    \/ Stream
    \/ Verify

FetchSpec == FetchInit /\ [][FetchNext]_vars

\* ==================================================== get_mod_dependencies
\* The loop of lines 170-199 over info_json.dependencies.  A declaration is a
\* string, modelled as a sequence of characters; a word that the parser never
\* looks into ("base", "space-age", "foo") counts as one character, and so
\* does the marker "(?)", which the parser only tests and removes as a whole.
Chars == {" ", "!", "?", "(?)", ">", "base", "space-age", "foo"}

\* mod.py lines 20-23.
FACTORIO_EXPANSIONS == {<<"space-age">>, <<"elevated-rails">>}

RECURSIVE LStrip(_)
LStrip(s) == IF s # <<>> /\ Head(s) = " " THEN LStrip(Tail(s)) ELSE s

RECURSIVE RStrip(_)
RStrip(s) ==
    IF s # <<>> /\ s[Len(s)] = " " THEN RStrip(SubSeq(s, 1, Len(s) - 1)) ELSE s

\* str.strip()
Strip(s) == RStrip(LStrip(s))

\* str.startswith(p)
StartsWith(s, p) == Len(s) >= Len(p) /\ SubSeq(s, 1, Len(p)) = p

\* str.replace(c, "")
Replace(s, c) == SelectSeq(s, LAMBDA x : x # c)

\* c in s
Contains(s, c) == \E i \in 1..Len(s) : s[i] = c

\* s.split(c)[0]
Before(s, c) ==
    IF Contains(s, c)
    THEN SubSeq(s, 1, (CHOOSE i \in 1..Len(s) :
                          s[i] = c /\ \A j \in 1..(i - 1) : s[j] # c) - 1)
    ELSE s

\* s.split()[0], of a string holding a character that is no space
FirstWord(s) == Before(LStrip(s), " ")

\* (C18's mutant: the tests of lines 187 and 196 are missing.)
IsExpansionNever(name) == FALSE

\* Lines 187 and 196: dep_name in FACTORIO_EXPANSIONS.
IsExpansion(name) == name \in FACTORIO_EXPANSIONS

Nothing == [kind |-> "none", name |-> <<>>]

\* Lines 171-199, the body of the loop for one declaration: the list the
\* declaration is appended to, and the name appended.
ParseDeclaration(raw) ==
    LET d == Strip(raw) IN
    IF d = <<>> \/ d = <<"base">> \/ StartsWith(d, <<"base", " ">>) THEN Nothing
    ELSE IF StartsWith(d, <<"!">>)
    THEN [kind |-> "incompatible", name |-> Strip(Tail(d))]
    ELSE IF StartsWith(d, <<"(?)">>) \/ StartsWith(d, <<"?">>)
    THEN LET n1 == Strip(Replace(Replace(d, "(?)"), "?"))
             n2 == IF Contains(n1, " ") THEN FirstWord(n1)
                   ELSE Strip(Before(Before(Before(Before(n1, ">"), "="), "<"), "!"))
         IN  IF IsExpansion(n2) THEN [kind |-> "expansion", name |-> n2]
             ELSE IF n2 # <<>> THEN [kind |-> "optional", name |-> n2]
             ELSE Nothing
    ELSE LET n == IF Contains(d, " ") THEN FirstWord(d)
                  ELSE Strip(Before(Before(Before(d, ">"), "="), "<"))
         IN  IF n # <<>> /\ n # <<"base">>
             THEN (IF IsExpansion(n) THEN [kind |-> "expansion", name |-> n]
                   ELSE [kind |-> "required", name |-> n])
             ELSE Nothing

Appended(list, kind, p) == IF p.kind = kind THEN Append(list, p.name) ELSE list

\* One iteration of the loop of line 170, on the next declaration of the list.
ParseNext(raw) ==
    /\ consumed + Len(raw) + 1 <= MaxInfoLen
    /\ consumed' = consumed + Len(raw) + 1
    /\ dep' = raw
    /\ LET p == ParseDeclaration(raw) IN
         /\ dependencies' = Appended(dependencies, "required", p)
         /\ optional_dependencies' = Appended(optional_dependencies, "optional", p)
         /\ incompatible_dependencies' = Appended(incompatible_dependencies, "incompatible", p)
         /\ expansion_dependencies' = Appended(expansion_dependencies, "expansion", p)
    /\ UNCHANGED <<sinkVars, downloadVars, fetchVars, moreVars>>

\* The declarations the rest of the list may begin with.
Declarations == IF consumed < MaxInfoLen THEN SeqsUpTo(Chars, MaxInfoLen - 1 - consumed) ELSE {}

ParseStep == \E raw \in Declarations : ParseNext(raw)

ParseSpec == Init /\ [][ParseStep]_vars

\* ======================================================= _compare_versions
\* mod.py.  A version string is the sequence of its dot-separated components
\* (what split('.') gives); a component is the sequence of its characters,
\* decimal digits or a character int() does not accept.
Components == {<<"0">>, <<"1">>, <<"2">>, <<"9">>, <<"1", "0">>, <<"x">>}
Versions == {v \in SeqsUpTo(Components, MaxParts) : Len(v) >= 1}

\* int(x) of line 77: whether it raises ValueError, and what it gives.
DigitValue == [ch \in {"0", "1", "2", "9"} |-> CASE ch = "0" -> 0 [] ch = "1" -> 1
                                                  [] ch = "2" -> 2 [] ch = "9" -> 9]
IsDecimal(c) == \A i \in 1..Len(c) : c[i] \in DOMAIN DigitValue
RECURSIVE IntOf(_)
IntOf(c) ==
    IF c = <<>> THEN 0 ELSE 10 * IntOf(SubSeq(c, 1, Len(c) - 1)) + DigitValue[c[Len(c)]]

\* (C26's mutant: the components are compared as strings, not as numbers.)
RECURSIVE LessAsText(_, _)
LessAsText(c, d) ==
    IF c = <<>> THEN d # <<>>
    ELSE IF d = <<>> THEN FALSE
    ELSE IF Head(c) # Head(d) THEN Head(c) < Head(d)
    ELSE LessAsText(Tail(c), Tail(d))

ComponentLessAsText(p, q) ==
    LET Text(n) == IF n < 10 THEN <<n>> ELSE <<n \div 10, n % 10>>
    IN  LessAsText(Text(p), Text(q))

\* Lines 84-87: the comparison of two parts.
ComponentLess(p, q) == p < q

\* Lines 76-90: -1, 0 or 1; 0 when a component is no number.
CompareVersions(a, b) ==
    IF \E i \in 1..Len(a) : ~IsDecimal(a[i]) THEN 0
    ELSE IF \E i \in 1..Len(b) : ~IsDecimal(b[i]) THEN 0
    ELSE LET n == IF Len(a) > Len(b) THEN Len(a) ELSE Len(b)
             P(v, i) == IF i <= Len(v) THEN IntOf(v[i]) ELSE 0
             RECURSIVE From(_)
             From(i) == IF i > n THEN 0
                        ELSE IF ComponentLess(P(a, i), P(b, i)) THEN -1
                        ELSE IF ComponentLess(P(b, i), P(a, i)) THEN 1
                        ELSE From(i + 1)
         IN  From(1)

\* The call of _compare_versions on the two version strings.
Compare ==
    /\ compared = <<>>
    /\ compared' = <<CompareVersions(v1, v2)>>
    /\ UNCHANGED <<v1, v2, sinkVars, downloadVars, fetchVars, parseVars, checkerVars,
                   lookupVars, uiVars>>

VersionInit ==
    /\ DefaultSinks
    /\ NoDownload
    /\ NoFetch
    /\ NoParse
    /\ v1 \in Versions
    /\ v2 \in Versions
    /\ compared = <<>>
    /\ NoChecker
    /\ NoLookup
    /\ NoUI

VersionSpec == VersionInit /\ [][Compare]_vars

\* ============================================================== ModChecker
\* checker.py.  The versions a file name or a release of the registry carries.
V_1 == <<(<<"1">>)>>
V_2 == <<(<<"2">>)>>
CheckerVersions == {V_1, V_2}

\* What the latest release of a 200 body says under "version": a version, or
\* nothing (the key is missing).
ReleaseVersions(o) ==
    IF o \in {"200", "200_malformed"} THEN CheckerVersions \cup {NoVersion} ELSE {NoVersion}

\* mod.py, lines 60-65 and 92-97: needs_update and update_status.
NeedsUpdate(mod) ==
    /\ mod.latest_version # NoVersion
    /\ mod.version # NoVersion
    /\ CompareVersions(mod.version, mod.latest_version) < 0

UpdateStatus(mod) ==
    [mod EXCEPT !.status = IF NeedsUpdate(mod) THEN "OUTDATED" ELSE "UP_TO_DATE"]

\* Lines 83-93: the Mod scan_mods builds of the file {name}_{v}.zip.
LocalMod(v) ==
    [version |-> v, latest_version |-> NoVersion, status |-> "UNKNOWN", file_path |-> v]

\* Lines 58-108: self.mods is emptied, a Mod is built of each zip file (of
\* the last one the glob gives, when a name has several) and a get_mod is
\* submitted per name.
ScanMods ==
    /\ checker_pc = "idle"
    /\ self_mods' = [m \in Pkgs |-> NoMod]
    /\ \E last \in [Pkgs -> CheckerVersions \cup {NoVersion}] :
         /\ \A m \in Pkgs : IF disk[m] = {} THEN last[m] = NoVersion
                                             ELSE last[m] \in disk[m]
         /\ local_mods' = [m \in Pkgs |-> IF disk[m] = {} THEN NoMod
                                                           ELSE LocalMod(last[m])]
    /\ waiting' = {m \in Pkgs : disk[m] # {}}
    /\ checker_pc' = "scan"
    /\ last_get' = NoGet
    /\ update_result' = NoUpdate
    /\ UNCHANGED <<disk, last_update_check, sinkVars, downloadVars, fetchVars, parseVars,
                   versionVars, lookupVars, uiVars>>

\* Lines 233-235: the except clause of check_updates.
CheckFailed(mod) == [mod EXCEPT !.status = "ERROR"]

\* Lines 115-138: what the body of the loop of scan_mods makes of the Mod,
\* get_mod having had outcome o, with rv in the latest release.
Scanned(mod, o, rv) ==
    IF GetMod(o).raised \/ GetMod(o).value = "empty" \/ o = "200_no_releases"
    THEN [mod EXCEPT !.status = "UNKNOWN"]
    ELSE UpdateStatus([mod EXCEPT !.latest_version =
                           IF rv = NoVersion THEN mod.version ELSE rv])

\* Lines 206-235: the same of check_updates.
Checked(mod, o, rv) ==
    IF GetMod(o).raised THEN CheckFailed(mod)
    ELSE IF GetMod(o).value = "empty" \/ o = "200_no_releases"
    THEN [mod EXCEPT !.status = "UNKNOWN"]
    ELSE UpdateStatus([mod EXCEPT !.latest_version =
                           IF rv = NoVersion THEN mod.version ELSE rv])

\* Lines 111-138: a future completes and the loop takes its result.
ScanResult(m, o, rv) ==
    /\ checker_pc = "scan"
    /\ m \in waiting
    /\ waiting' = waiting \ {m}
    /\ last_get' = [outcome |-> o, result |-> GetMod(o)]
    /\ self_mods' = [self_mods EXCEPT ![m] = Scanned(local_mods[m], o, rv)]
    /\ local_mods' = [local_mods EXCEPT ![m] = NoMod]
    /\ UNCHANGED <<disk, last_update_check, checker_pc, update_result, sinkVars,
                   downloadVars, fetchVars, parseVars, versionVars, lookupVars, uiVars>>

\* Lines 140-143.
ScanDone ==
    /\ checker_pc = "scan"
    /\ waiting = {}
    /\ last_update_check' = "fresh"
    /\ checker_pc' = "idle"
    /\ last_get' = NoGet
    /\ UNCHANGED <<self_mods, local_mods, disk, waiting, update_result, sinkVars, downloadVars,
                   fetchVars, parseVars, versionVars, lookupVars, uiVars>>

\* Ten minutes pass since the last check.
TenMinutes ==
    /\ last_update_check = "fresh"
    /\ last_update_check' = "stale"
    /\ UNCHANGED <<self_mods, local_mods, disk, checker_pc, waiting, last_get, update_result,
                   sinkVars, downloadVars, fetchVars, parseVars, versionVars, lookupVars, uiVars>>

Installed_ == {m \in Pkgs : self_mods[m] # NoMod}

\* Lines 157-199: nothing to check, or the cached data is reported, or a
\* get_mod is submitted per name.
CheckUpdates(force_refresh) ==
    /\ checker_pc = "idle"
    /\ update_result' = NoUpdate
    /\ IF Installed_ = {} \/ (last_update_check = "fresh" /\ ~force_refresh)
       THEN UNCHANGED <<checker_pc, waiting>>
       ELSE /\ checker_pc' = "check"
            /\ waiting' = Installed_
    /\ UNCHANGED <<self_mods, local_mods, disk, last_update_check, last_get, sinkVars,
                   downloadVars, fetchVars, parseVars, versionVars, lookupVars, uiVars>>

\* Lines 202-235.
CheckResult(m, o, rv) ==
    /\ checker_pc = "check"
    /\ m \in waiting
    /\ waiting' = waiting \ {m}
    /\ last_get' = [outcome |-> o, result |-> GetMod(o)]
    /\ self_mods' = [self_mods EXCEPT ![m] = Checked(self_mods[m], o, rv)]
    /\ UNCHANGED <<local_mods, disk, last_update_check, checker_pc, update_result, sinkVars,
                   downloadVars, fetchVars, parseVars, versionVars, lookupVars, uiVars>>

\* Lines 237-241.
CheckDone ==
    /\ checker_pc = "check"
    /\ waiting = {}
    /\ last_update_check' = "fresh"
    /\ checker_pc' = "idle"
    /\ last_get' = NoGet
    /\ UNCHANGED <<self_mods, local_mods, disk, waiting, update_result, sinkVars, downloadVars,
                   fetchVars, parseVars, versionVars, lookupVars, uiVars>>

\* Lines 292-293 and 306-307: the Mod after a failed download; line 292 has
\* set its version to latest_version before download_mod was called.
FailedUpdate(mod) == [mod EXCEPT !.version = mod.latest_version]

\* Lines 292-305: the Mod after a download that succeeded.
Updated(mod) ==
    [mod EXCEPT !.version = mod.latest_version, !.file_path = mod.latest_version,
                !.status = "UP_TO_DATE"]

\* update_mod (lines 255-309; the copy to backup/ is left out).  download_mod
\* is called with force=True: it leaves a valid file at the target path and
\* returns True, or returns False, the file at the target path removed or
\* (the mirror answering with a status other than 200) left as it was.
UpdateMod(m, success, removed) ==
    /\ checker_pc = "idle"
    /\ LET mod == self_mods[m]
           target == mod.latest_version
           Result(r) == update_result' = [name |-> m, ret |-> r, before |-> mod]
       IN
       IF mod = NoMod
       THEN Result("not installed") /\ UNCHANGED <<self_mods, disk>>
       ELSE IF mod.version = mod.latest_version
       THEN Result("already up to date") /\ UNCHANGED <<self_mods, disk>>
       ELSE IF mod.latest_version = NoVersion
       THEN Result("no update available") /\ UNCHANGED <<self_mods, disk>>
       ELSE IF success
       THEN /\ Result("True")
            /\ disk' = [disk EXCEPT ![m] = (@ \cup {target}) \ {mod.file_path}]
            /\ self_mods' = [self_mods EXCEPT ![m] = Updated(mod)]
       ELSE /\ Result("False")
            /\ disk' = [disk EXCEPT ![m] = IF removed THEN @ \ {target} ELSE @]
            /\ self_mods' = [self_mods EXCEPT ![m] = FailedUpdate(mod)]
    /\ last_get' = NoGet
    /\ UNCHANGED <<local_mods, last_update_check, checker_pc, waiting, sinkVars,
                   downloadVars, fetchVars, parseVars, versionVars, lookupVars, uiVars>>

\* A ModChecker on a mods folder with some zip files in it.
CheckerInit ==
    /\ DefaultSinks
    /\ NoDownload
    /\ NoFetch
    /\ NoParse
    /\ NoCompare
    /\ self_mods = [m \in Pkgs |-> NoMod]
    /\ local_mods = [m \in Pkgs |-> NoMod]
    /\ disk \in [Pkgs -> SUBSET CheckerVersions]
    /\ last_update_check = "None"
    /\ checker_pc = "idle"
    /\ waiting = {}
    /\ last_get = NoGet
    /\ update_result = NoUpdate
    /\ NoLookup
    /\ NoUI

CheckerNext ==
    \/ ScanMods
    \/ \E m \in Pkgs, o \in HttpOutcomes : \E rv \in ReleaseVersions(o) : ScanResult(m, o, rv)
    \/ ScanDone
    \/ TenMinutes
    \/ \E force_refresh \in BOOLEAN : CheckUpdates(force_refresh)
    \/ \E m \in Pkgs, o \in HttpOutcomes : \E rv \in ReleaseVersions(o) : CheckResult(m, o, rv)
    \/ CheckDone
    \/ \E m \in Pkgs, success \in BOOLEAN, removed \in BOOLEAN : UpdateMod(m, success, removed)

CheckerSpec == CheckerInit /\ [][CheckerNext]_vars

\* =================================================== parse_mod_from_portal
\* portal.py, lines 210-253: one lookup, GET by GET, while the registry goes
\* on publishing releases and may stop answering.
\* The outcomes of a GET, given what the registry does when it is sent.
PortalOutcomes ==
    IF portal_answers = "failing" THEN HttpOutcomes \ Status200
    ELSE IF portal_answers = "empty" THEN {"200_empty"}
    ELSE IF portal_release = 0 THEN {"200_no_releases"}
    ELSE {"200"}

\* Lines 220-231: the first GET; without a release there is no Mod.
FirstGet(o) ==
    /\ lookup_pc = "idle"
    /\ o \in PortalOutcomes
    /\ IF GetMod(o).raised \/ GetMod(o).value = "empty" \/ o = "200_no_releases"
       THEN /\ lookup_pc' = "done"
            /\ UNCHANGED latest_release
       ELSE /\ lookup_pc' = "second"
            /\ latest_release' = portal_release
    /\ UNCHANGED <<portal_release, portal_answers, release_deps, lookup_mod, sinkVars,
                   downloadVars, fetchVars, parseVars, versionVars, checkerVars, uiVars>>

\* Lines 153-201 and 234-250: the Mod built after the second GET, made by
\* get_mod_dependencies, has brought a body: its lists are those of the
\* latest release of that body, or empty when the body is empty.
DependenciesOfSecond(o) ==
    IF GetMod(o).value = "empty" \/ o = "200_no_releases"
    THEN [made |-> TRUE, version |-> latest_release, dependencies |-> {}, taken_from |-> 0]
    ELSE [made |-> TRUE, version |-> latest_release,
          dependencies |-> release_deps[portal_release], taken_from |-> portal_release]

\* Line 232 to 253: get_mod_dependencies sends the second GET; its
\* PortalAPIError is caught at line 251 and the lookup gives None.
SecondGet(o) ==
    /\ lookup_pc = "second"
    /\ o \in PortalOutcomes
    /\ lookup_pc' = "done"
    /\ lookup_mod' = IF GetMod(o).raised THEN NoLookupMod ELSE DependenciesOfSecond(o)
    /\ UNCHANGED <<portal_release, portal_answers, release_deps, latest_release, sinkVars,
                   downloadVars, fetchVars, parseVars, versionVars, checkerVars, uiVars>>

\* The author publishes a release.
Publish ==
    /\ portal_release < MaxVersion
    /\ portal_release' = portal_release + 1
    /\ UNCHANGED <<portal_answers, release_deps, lookup_pc, latest_release, lookup_mod,
                   sinkVars, downloadVars, fetchVars, parseVars, versionVars, checkerVars, uiVars>>

\* The registry starts or stops failing, or answering with an empty body.
Weather(a) ==
    /\ portal_answers # a
    /\ portal_answers' = a
    /\ UNCHANGED <<portal_release, release_deps, lookup_pc, latest_release, lookup_mod,
                   sinkVars, downloadVars, fetchVars, parseVars, versionVars, checkerVars, uiVars>>

LookupInit ==
    /\ DefaultSinks
    /\ NoDownload
    /\ NoFetch
    /\ NoParse
    /\ NoCompare
    /\ NoChecker
    /\ NoUI
    /\ portal_release \in 0..MaxVersion
    /\ portal_answers \in {"ok", "empty", "failing"}
    /\ release_deps \in [1..MaxVersion -> SUBSET Names]
    /\ lookup_pc = "idle"
    /\ latest_release = 0
    /\ lookup_mod = NoLookupMod

LookupNext ==
    \/ \E o \in HttpOutcomes : FirstGet(o)
    \/ \E o \in HttpOutcomes : SecondGet(o)
    \/ Publish
    \/ \E a \in {"ok", "empty", "failing"} : Weather(a)

LookupSpec == LookupInit /\ [][LookupNext]_vars

\* ============================================================ download tab
\* ui/downloader_tab.py: the Download button (line 369), its handler
\* _start_download (lines 737-802) and _download_thread (lines 804-893).
UrlKinds == {"empty", "name", "bad_url", "url"}

\* What download_mods gives the thread: lists (lines 838-840) or an exception.
ThreadOutcomes == {"downloaded", "failed", "both", "neither", "PortalAPIError", "Exception"}

\* Lines 843-888: the notifications the thread schedules, by outcome.
ThreadNotifications(o) ==
    IF o = "downloaded" THEN <<"success">>
    ELSE IF o = "both" THEN <<"success", "error">>
    ELSE IF o = "neither" THEN <<>>
    ELSE <<"error">>

\* The user edits the URL field.
EditUrl(u) ==
    /\ url_entry # u
    /\ url_entry' = u
    /\ UNCHANGED <<folder_var, is_downloading, download_btn, ui_pc, notifications, sinkVars,
                   downloadVars, fetchVars, parseVars, versionVars, checkerVars, lookupVars>>

\* The user selects or clears the mods folder.
SelectFolder ==
    /\ folder_var' = ~folder_var
    /\ UNCHANGED <<url_entry, is_downloading, download_btn, ui_pc, notifications, sinkVars,
                   downloadVars, fetchVars, parseVars, versionVars, checkerVars, lookupVars>>

\* Lines 737-802: a click on the Download button, which Tk delivers while the
\* button is not disabled. Validation failures return before line 772; past
\* it the button is disabled and the flag set, and the thread is started
\* only when is_online() answers True (lines 786-802).
StartDownload(online) ==
    /\ download_btn = "normal"
    /\ Len(notifications) + 2 <= MaxNotes
    /\ IF url_entry = "empty" \/ url_entry = "bad_url" \/ ~folder_var
       THEN /\ notifications' = Append(notifications, "error")
            /\ UNCHANGED <<is_downloading, download_btn, ui_pc>>
       ELSE /\ download_btn' = "disabled"
            /\ is_downloading' = TRUE
            /\ IF online
               THEN /\ ui_pc' = "thread"
                    /\ UNCHANGED notifications
               ELSE /\ notifications' = Append(notifications, "error")
                    /\ UNCHANGED ui_pc
    /\ UNCHANGED <<url_entry, folder_var, sinkVars, downloadVars, fetchVars, parseVars,
                   versionVars, checkerVars, lookupVars>>

\* Lines 804-893: the thread, to the end of its finally block.
DownloadThread(o) ==
    /\ ui_pc = "thread"
    /\ notifications' = notifications \o ThreadNotifications(o)
    /\ is_downloading' = FALSE
    /\ download_btn' = "normal"
    /\ ui_pc' = "idle"
    /\ UNCHANGED <<url_entry, folder_var, sinkVars, downloadVars, fetchVars, parseVars,
                   versionVars, checkerVars, lookupVars>>

UIInit ==
    /\ DefaultSinks
    /\ NoDownload
    /\ NoFetch
    /\ NoParse
    /\ NoCompare
    /\ NoChecker
    /\ NoLookup
    /\ NoUI

UINext ==
    \/ \E u \in UrlKinds : EditUrl(u)
    \/ SelectFolder
    \/ \E online \in BOOLEAN : StartDownload(online)
    \/ \E o \in ThreadOutcomes : DownloadThread(o)

UISpec == UIInit /\ [][UINext]_vars

\* ================================================================== claims
Root == mod_names[rootIdx]

\* The edges of the registry's dependency graph that a resolve call follows.
Followed(n, include_opt) ==
    IF registry[n].st # "found" THEN {}
    ELSE Range(registry[n].req)
         \cup (IF include_opt THEN Range(registry[n].opt) ELSE {})

\* Names reachable from name through packages whose lookup does not fail.
RECURSIVE ReachIter(_, _, _)
ReachIter(S, include_opt, k) ==
    IF k = 0 THEN S
    ELSE ReachIter(S \cup {d \in Names : /\ registry[d].st # "absent"
                                         /\ \E n \in S : d \in Followed(n, include_opt)},
                   include_opt, k - 1)

Reach(name, include_opt) ==
    IF registry[name].st = "absent" THEN {}
    ELSE ReachIter({name}, include_opt, NumMods)

\* C1: when one root of download_mods has no registry entry and everything
\* else resolves and is fetched, the call returns, the packages of the good
\* roots are in downloaded and the missing root is in failed.
C1_MissingRootInFailed ==
    \A bad \in Range(mod_names) :
        (/\ pc \in {"done", "raised"}
         /\ DefaultSinks
         /\ lookupFailed = {bad}
         /\ Range(mod_names) \ {bad} # {}
         /\ Range(mod_names) \ {bad} \subseteq all_mods
         /\ failed \cap all_mods = {})
        => (pc = "done" /\ all_mods \subseteq downloaded /\ bad \in failed)

\* C2: the closure a top-level resolve call returns is exactly the set of names
\* reachable from the root over required edges, and over optional edges iff
\* include_optional, through packages whose lookup succeeds.
C2_ClosureIsReachableSet ==
    (pc = "resolved" /\ DefaultSinks) => ret = Reach(Root, include_optional)

C2_Witness ==
    /\ pc = "resolved"
    /\ DefaultSinks
    /\ ~include_optional
    /\ registry[Root].st = "found"
    /\ Cardinality(ret) >= 2
    /\ \E c \in Range(registry[Root].opt) : c \notin ret

\* C3: the recursion terminates on every registry graph, cycles included: a
\* non-negative measure decreases with every step of a resolve call.
Pending(k) == Len(stack[k].todo) + 1

RECURSIVE PendingUpTo(_)
PendingUpTo(k) == IF k = 0 THEN 0 ELSE Pending(k) + PendingUpTo(k - 1)

Variant == (NumMods - Cardinality(visited)) * (MaxEdges + 2) + PendingUpTo(Len(stack))

C3_ResolveTerminates ==
    [][(pc = "resolving" /\ pc' = "resolving") => (Variant' < Variant /\ Variant' >= 0)]_vars

\* A cycle through every name has been resolved, each name once.
C3_Witness ==
    /\ pc = "resolved"
    /\ DefaultSinks
    /\ ret = Names
    /\ \A n \in Names : lookups[n] = 1
    /\ \A n \in Names : registry[n].st = "found" /\ Len(registry[n].req) = 1
    /\ \A n \in Names : registry[n].req[1] # n
    /\ \A n, m \in Names : n # m => registry[n].req[1] # registry[m].req[1]

\* C4: within one top-level resolve call a name is processed at most once and
\* its registry metadata is fetched at most once.
C4_FetchedOnce ==
    \A n \in Names : lookups[n] <= 1 /\ gets[n] <= 1

\* C5: a dependency whose lookup fails does not make resolve raise and does not
\* drop the other branches: the failed name is not in the closure, the root is,
\* and the closure holds every found dependency of each of its packages.
C5_FailedBranchContained ==
    DefaultSinks =>
        /\ ~exc
        /\ pc = "resolved" =>
             /\ ret \cap lookupFailed = {}
             /\ registry[Root].st = "found" => Root \in ret
             /\ \A n \in ret : \A d \in Followed(n, include_optional) :
                    registry[d].st = "found" => d \in ret

\* The first dependency of the root failed, a later one is in the closure.
C5_Witness ==
    /\ pc = "resolved"
    /\ DefaultSinks
    /\ registry[Root].st = "found"
    /\ Len(registry[Root].req) >= 2
    /\ registry[Root].req[1] \in lookupFailed
    /\ registry[Root].req[2] \in ret \ {Root}

\* C6: a transitive dependency whose lookup fails is in failed when
\* download_mods returns.
C6_FailedDependencyReported ==
    (pc = "done" /\ DefaultSinks) => (lookupFailed \ Range(mod_names)) \subseteq failed

\* C7: whatever the registry and the mirror do, no exception leaves
\* resolve_dependencies or download_mods (with the default sinks).
C7_NeverRaises ==
    DefaultSinks => (pc # "raised" /\ ~exc)

C7_Witness ==
    /\ pc = "done"
    /\ DefaultSinks
    /\ lookupFailed # {}
    /\ failed # {}
    /\ downloaded # {}

\* C8: an exception raised by a caller-supplied sink does not leave resolve
\* or download_mods, and does not change where a package ends up.
C8_SinkExceptionsGuarded ==
    /\ pc # "raised"
    /\ ~(exc /\ stack = <<>>)
    /\ downloaded \cap failed = {}

\* C9: download_mods returns only after every submitted fetch has completed,
\* with every resolved package in exactly one of downloaded and failed.
C9_Partition ==
    pc = "done" =>
        /\ Queued = {} /\ Running = {}
        /\ \A m \in all_mods : (m \in downloaded) # (m \in failed)

\* C10: the fetches running at any moment are at most max_workers.
C10_BoundedConcurrency ==
    Cardinality(Running) <= pool_workers

C10_Witness ==
    /\ Cardinality(Running) = pool_workers
    /\ Queued # {}
    /\ pool_workers >= 1

\* C11: within one download_mods call at most one download_mod call is
\* submitted for a name, however often the name is requested or reached, so
\* the calls of the pool have pairwise different target paths.
C11_SubmittedOnce ==
    \A n \in Names :
        /\ submitted[n] <= 1
        /\ fut[n] # "none" => (submitted[n] = 1 /\ n \in all_mods)

\* A name resolved under two roots (its second resolution found a newer
\* release) is being fetched, by one call.
C11_Witness ==
    \E n \in Names :
        /\ fut[n] = "running"
        /\ submitted[n] = 1
        /\ all_mods_version[n] = MaxVersion
        /\ Len(mod_names) >= 2

\* C12: when a name is in the closure of an earlier root and of a later one,
\* all_mods keeps the Mod of the earlier resolution.
C12_FirstWriteWins ==
    [][(pc = "resolved" /\ pc' = "loop") =>
         \A n \in all_mods : all_mods_version'[n] = all_mods_version[n]]_vars

\* C13: a download_mod call that fails leaves the mods folder as it was when
\* the call was entered, whatever force is and whether or not the target
\* file was there.
C13_FailureLeavesFolder ==
    (fetch_pc = "idle" /\ fetch_ret = "False" /\ DefaultSinks)
        => mods_folder = folder_before

\* C14: when download_mod returns True, the target file is there and is a
\* valid archive, whatever the folder held before.
C14_TrueMeansValidFile ==
    (fetch_pc = "idle" /\ fetch_ret = "True" /\ DefaultSinks)
        => mods_folder.target = "valid"

\* C15: a 200 response whose body is no archive, or fails the CRC test, or
\* breaks while it is streamed, makes download_mod return False with no file
\* at the target path.
C15_BadBodyLeavesNoFile ==
    (fetch_pc = "idle" /\ DefaultSinks /\ body \in {"not_zip", "bad_crc", "broken_stream"})
        => (fetch_ret = "False" /\ mods_folder.target = "absent")

\* A forced download over a file that was there got a body failing the CRC test.
C15_Witness ==
    /\ fetch_pc = "idle"
    /\ DefaultSinks
    /\ body = "bad_crc"
    /\ fetch_ret = "False"
    /\ folder_before.target = "valid"
    /\ mods_folder.target = "absent"

\* C16: download_mod with force off on a package whose target file is there
\* returns True, sends nothing to the mirror and leaves the folder as it was,
\* also when it is called again after a download.
C16_InstalledIsNoOp ==
    (fetch_pc = "idle" /\ fetch_ret # "none" /\ DefaultSinks
     /\ ~force /\ folder_before.target # "absent")
        => (fetch_ret = "True" /\ mirror_requests = 0 /\ mods_folder = folder_before)

C16_Witness ==
    /\ fetch_pc = "idle"
    /\ DefaultSinks
    /\ ~force
    /\ folder_before.target = "valid"
    /\ fetch_ret = "True"
    /\ mirror_requests = 0

\* The four lists get_mod_dependencies returns.
Lists ==
    [required |-> dependencies, optional |-> optional_dependencies,
     incompatible |-> incompatible_dependencies, expansion |-> expansion_dependencies]

Kinds == DOMAIN Lists

\* C17: no list holds an empty name or the name "base".
C17_NoEmptyOrBase ==
    \A k \in Kinds : \A i \in 1..Len(Lists[k]) :
        Lists[k][i] # <<>> /\ Lists[k][i] # <<"base">>

OneListAtMost ==
    Len(dependencies') + Len(optional_dependencies') + Len(incompatible_dependencies')
        + Len(expansion_dependencies')
    <= Len(dependencies) + Len(optional_dependencies) + Len(incompatible_dependencies)
        + Len(expansion_dependencies) + 1

NameAfterBang(raw) ==
    LET rest == Strip(Tail(Strip(raw)))
    IN  IF Contains(rest, " ") THEN FirstWord(rest) ELSE rest

\* C19: a declaration with a leading ! is appended to the incompatible list
\* under the name that follows the marker up to the first whitespace.
C19_IncompatibleName ==
    StartsWith(Strip(dep), <<"!">>) =>
        /\ incompatible_dependencies # <<>>
        /\ incompatible_dependencies[Len(incompatible_dependencies)] = NameAfterBang(dep)

\* C20: the four lists of a package are pairwise disjoint as sets of names.
C20_ListsDisjoint ==
    \A k1, k2 \in Kinds : k1 # k2 => Range(Lists[k1]) \cap Range(Lists[k2]) = {}


\* The version strings "1.2.0", "1.2", "1.9.0", "1.10.0", "2.0" and "1.9.9".
V_1_2_0 == <<(<<"1">>), (<<"2">>), (<<"0">>)>>
V_1_2 == <<(<<"1">>), (<<"2">>)>>
V_1_9_0 == <<(<<"1">>), (<<"9">>), (<<"0">>)>>
V_1_10_0 == <<(<<"1">>), (<<"1", "0">>), (<<"0">>)>>
V_2_0 == <<(<<"2">>), (<<"0">>)>>
V_1_9_9 == <<(<<"1">>), (<<"9">>), (<<"9">>)>>

DottedNumeric(v) == \A i \in 1..Len(v) : IsDecimal(v[i])

\* The i-th component of v as a number, 0 when v has no i-th component.
Part(v, i) == IF i <= Len(v) THEN IntOf(v[i]) ELSE 0

\* v comes before w, component by component.
Before_(v, w) ==
    \E i \in 1..MaxParts :
        /\ Part(v, i) < Part(w, i)
        /\ \A j \in 1..(i - 1) : Part(v, j) = Part(w, j)

\* C26: _compare_versions compares component-wise and numerically, missing
\* trailing components counting as 0: "1.2.0" equals "1.2", "1.9.0" is less
\* than "1.10.0", "2.0" is greater than "1.9.9"; a non-numeric component in
\* either argument makes the result equal; and for dotted-numeric arguments
\* compare(a, b) = -compare(b, a).
C26_NumericOrder ==
    compared # <<>> =>
        /\ (v1 = V_1_2_0 /\ v2 = V_1_2) => compared[1] = 0
        /\ (v1 = V_1_9_0 /\ v2 = V_1_10_0) => compared[1] = -1
        /\ (v1 = V_2_0 /\ v2 = V_1_9_9) => compared[1] = 1
        /\ (~DottedNumeric(v1) \/ ~DottedNumeric(v2)) => compared[1] = 0
        /\ (DottedNumeric(v1) /\ DottedNumeric(v2)) =>
               /\ compared[1] = (IF Before_(v1, v2) THEN -1
                                 ELSE IF Before_(v2, v1) THEN 1 ELSE 0)
               /\ CompareVersions(v2, v1) = 0 - compared[1]

C26_Witness == v1 = V_1_9_0 /\ v2 = V_1_10_0 /\ compared = <<-1>>


\* The kind of failure get_mod reports for each outcome of the GET, and the
\* body it returns on HTTP 200 (a connect time-out is a connection-level
\* failure and a time-out).
Reported(o, r) ==
    /\ o \in Status200 \ {"bad_json"} => ~r.raised
    /\ o \notin Status200 \ {"bad_json"} => r.raised /\ r.value = "none"
    /\ o = "404" => r.error_type = "not_found"
    /\ o \in {"500", "other_status"} => r.error_type = "server_error" /\ r.status_code
    /\ o = "conn_error" => r.error_type = "offline"
    /\ o = "timeout" => r.error_type = "timeout"
    /\ o = "connect_timeout" => r.error_type \in {"offline", "timeout"}
    /\ o = "bad_json" => r.error_type = "unknown"

C27_UnknownUntilPopulated ==
    \A m \in Pkgs :
        self_mods[m] # NoMod /\ self_mods[m].latest_version = NoVersion =>
            self_mods[m].status = "UNKNOWN"

\* C28: when the download inside update_mod has failed, the Mod is as it was
\* before the call.
C28_FailedUpdateLeavesMod ==
    update_result.ret = "False" => self_mods[update_result.name] = update_result.before


\* total of line 370: the fetches submitted.
Total == Cardinality({n \in Names : submitted[n] > 0})

\* C24: the aggregate sink is called once per submitted fetch, with
\* completed = 1, 2, ..., total in that order.
C24_AggregateCountsEveryFetch ==
    overall_progress_callback = "set" =>
        /\ overall_calls = [i \in 1..Len(overall_calls) |-> i]
        /\ Len(overall_calls) = completed
        /\ pc \in {"done", "raised"} => Len(overall_calls) = Total

\* C25: no caller-supplied sink is called by a pool worker.
C25_SinksOnOrchestratingThread == ~worker_sink_calls


\* C22: when a resolved package declares an incompatibility with X, with or
\* without a version constraint, and X is installed, the warning that names X
\* has been logged by the time the fetches are submitted; and they are
\* submitted.
C22_InstalledConflictWarned ==
    pc \in {"collect", "draining", "done"} =>
        /\ \A d \in all_incompatibilities :
               d.name \in installed_mods =>
                   \E c \in conflicts_with_installed : c.name = d.name
        /\ \A n \in all_mods : submitted[n] >= 1

\* The names some Mod met so far declares as incompatible or as an expansion,
\* and the names asked for as a root or declared as a dependency.
DeclaredTerminal ==
    {d.name : d \in all_incompatibilities \cup ret_terminal.incompatibilities
                    \cup UNION {stack[i].incompatibilities : i \in 1..Len(stack)}}
    \cup all_expansions \cup ret_terminal.expansions
    \cup UNION {stack[i].expansions : i \in 1..Len(stack)}

Wanted ==
    Range(mod_names)
    \cup UNION {Range(registry[n].req) \cup Range(registry[n].opt) : n \in Names}

\* C23: a name that is only declared as incompatible or as an expansion is
\* never looked up and never in a closure, and no fetch is submitted for an
\* expansion that was not asked for.
C23_TerminalNamesNotResolved ==
    /\ pc \in {"loop", "resolving", "resolved"} =>
          \A x \in DeclaredTerminal \ Wanted :
              /\ registry[x].st = "unknown"
              /\ lookups[x] = 0
              /\ x \notin all_mods \cup ret
              /\ \A i \in 1..Len(stack) : x \notin stack[i].deps
    /\ \A x \in expansion_names \ Range(mod_names) :
          x \notin all_mods /\ submitted[x] = 0 /\ fut[x] = "none"

C23_Witness == pc = "done" /\ all_expansions # {} /\ downloaded # {}


\* C29: the version and the dependency lists of the Mod a lookup returns are
\* those of one release, whatever the registry does during the lookup.
C29_OneRelease ==
    lookup_mod.made => lookup_mod.dependencies = release_deps[lookup_mod.version]


\* C30: the flag set and the button disabled by _start_download are reset:
\* with no download thread running, is_downloading is false and the
\* Download button is enabled.
C30_ButtonReenabled ==
    ui_pc = "idle" => (~is_downloading /\ download_btn = "normal")

====
